---------------------------- MODULE Spec2Model ----------------------------
(***************************************************************************)
(* Model of the Discogs wantlist reissue checker                           *)
(* (src/unnamed/part_000, configuration in src/index.ts lines 434-499).    *)
(*                                                                         *)
(* Three specifications share the module:                                  *)
(*   Spec         the run of main(): input, sequential batch of lookups,   *)
(*                rate limiter, backoff retries, CSV output, exit status;  *)
(*   SpecTracker  the RateLimiter class driven by arbitrary calls of its   *)
(*                methods and arbitrary clock advances;                    *)
(*   SpecOffline  the version filter/map and writeResultsToCsv applied to  *)
(*                version lists drawn from a bounded set.                  *)
(*                                                                         *)
(* Time is in milliseconds, as Date.now().  The code only ever uses        *)
(* differences of Date.now() values, so every state is written with the    *)
(* present instant as the origin of the time axis: Date.now() is 0 and a   *)
(* timestamp taken d ms ago is -d.  When an action lets d ms pass, the     *)
(* stored timestamps move back by d (elapse).  The operators that model    *)
(* the code take the clock value as a parameter, as the code reads it.     *)
(*                                                                         *)
(* Strings whose characters the code inspects are tuples of one-character  *)
(* strings.  An optional value (undefined in the source) is a tuple of     *)
(* length 0 or 1.                                                          *)
(***************************************************************************)
EXTENDS Integers, Sequences, FiniteSets, TLC

VARIABLES
    \* RateLimiter instance (module-scoped `rateLimiter`) and the clock
    requestTimestamps,  \* RateLimiter.requestTimestamps
    maxRequests,        \* RateLimiter.maxRequests
    lastWait,           \* what the last waitIfNeeded call did (observation)
    \* main() and the lookup in progress
    pc,                 \* position of the single thread of control
    input,              \* the input file: unreadable, or its parsed rows
    isAuthenticated,    \* module-scoped flag set by getClient
    releaseIds,         \* extractReleaseIds(rows)
    i,                  \* loop index of main (number of targets completed)
    cur,                \* arguments of the running checkRelease... call
    release,            \* releaseResponse.data of the current attempt
    pending,            \* the remote call in flight / the backoff delay pending
    results,            \* main: results
    matched,            \* main: releasesWithPostMinYear
    csvContent,         \* the output file: not written, or its lines
    exitCode,           \* process exit status
    \* observations of the run (history, not program state)
    callLog,            \* issue times of the remote calls of the trailing window
    attempt,            \* history of the lookup in progress or just completed
    progressLog,        \* progress observations emitted
    \* RateLimiter driven directly (SpecTracker)
    recorded,           \* every timestamp recordRequest ever pushed
    observed,           \* the value the last query returned
    clock,              \* time passed since the tracker was constructed
    sleeping,           \* the waitIfNeeded calls in progress: each one's timer
    \* filter/map and formatter driven directly (SpecOffline)
    offStage,
    offVersions,        \* one version list per result
    offResults,
    offRows

trackerVars == <<requestTimestamps, maxRequests, lastWait>>
mainVars == <<pc, input, isAuthenticated, releaseIds, i, cur, release, pending,
              results, matched, csvContent, exitCode>>
historyVars == <<callLog, attempt, progressLog>>
probeVars == <<recorded, observed, clock, sleeping>>
offVars == <<offStage, offVersions, offResults, offRows>>
vars == <<trackerVars, mainVars, historyVars, probeVars, offVars>>

----------------------------------------------------------------------------
(* Configuration (src/index.ts, the config module).                        *)

MIN_YEAR == 2015
WINDOW_MS == 60000
BUFFER_MS == 100
CONSERVATIVE_DELAY_MS == 1000
WAIT_THRESHOLD == 2
MAX_RETRIES == 5
BASE_DELAY_MS == 60000

(* Bounds of the model.  The request budgets and the report interval are   *)
(* parameters of the code (RateLimiter's constructor argument, PROGRESS.   *)
(* REPORT_INTERVAL); the configured 60, 25 and 10 are scaled down so that  *)
(* a batch of a few targets fills the window and emits progress.           *)
AuthBudget == 5
UnauthBudget == 4
ReportInterval == 2
Latency == 10000
MaxRecords == 5
MaxClock == 100000
ClockStep == 30000
MaxWaits == 2

Max(a, b) == IF a >= b THEN a ELSE b

None == <<>>
Some(x) == <<x>>
IsSome(o) == Len(o) > 0
Get(o) == o[1]

----------------------------------------------------------------------------
(* RateLimiter                                                             *)

\* Date.now() at the present instant.
now == 0

\* The timestamps ts as they read once d ms have passed.
elapse(ts, d) == [k \in DOMAIN ts |-> ts[k] - d]

\* sleep(ms): the timer resolves ms after it was set.
sleep(t, ms) == t + ms

\* setTimeout(resolve, ms) settles sleep's promise, whatever the delay.
timerDropsResolve(ms) == FALSE
timerFires(ms) == TRUE

\* cleanup(): keep the timestamps younger than the window.
cleanupNothing(ts, t) == ts
cleanupStale(ts, t) == SelectSeq(ts, LAMBDA x : t - x <= WINDOW_MS)
cleanup(ts, t) == SelectSeq(ts, LAMBDA x : t - x < WINDOW_MS)

\* getRequestsInWindow(): cleanup, then the length.
getRequestsInWindow(ts, t) == Len(cleanup(ts, t))

\* getRemaining()
getRemainingUnclamped(ts, t, m) == m - getRequestsInWindow(ts, t)
getRemaining(ts, t, m) == Max(0, m - getRequestsInWindow(ts, t))

\* recordRequest(): cleanup, then push Date.now().
recordRequest(ts, t) == Append(cleanup(ts, t), t)

\* `remainingFromHeader !== undefined ? remainingFromHeader : this.getRemaining()`
remainingLocalOnly(cleaned, t, m, remainingFromHeader) == getRemaining(cleaned, t, m)
remainingForWait(cleaned, t, m, remainingFromHeader) ==
    IF IsSome(remainingFromHeader)
    THEN Get(remainingFromHeader)
    ELSE getRemaining(cleaned, t, m)

\* `remaining <= RATE_LIMIT.WAIT_THRESHOLD`
closeToLimitStrict(remaining) == remaining < WAIT_THRESHOLD
closeToLimit(remaining) == remaining <= WAIT_THRESHOLD

\* `this.windowMs - (Date.now() - oldestRequest) + RATE_LIMIT.BUFFER_MS`
waitTimeWithoutBuffer(t, oldestRequest) == WINDOW_MS - (t - oldestRequest)
waitTimeOf(t, oldestRequest) == WINDOW_MS - (t - oldestRequest) + BUFFER_MS

\* waitIfNeeded up to its `await sleep(...)`: the tracker after cleanup(),
\* the decision, and the delay of the timer it sets (0 when it returns
\* without sleeping).
waitIfNeededBegin(ts, t, m, remainingFromHeader) ==
    LET cleaned == cleanup(ts, t)
        remaining == remainingForWait(cleaned, t, m, remainingFromHeader)
    IN  IF closeToLimit(remaining)
        THEN IF Len(cleaned) > 0
             THEN LET oldestRequest == cleaned[1]
                      waitTime == waitTimeOf(t, oldestRequest)
                  IN  IF waitTime > 0
                      THEN [ts |-> cleaned, kind |-> "window", slept |-> waitTime,
                            oldest |-> Some(oldestRequest), remaining |-> remaining]
                      ELSE [ts |-> cleaned, kind |-> "none", slept |-> 0,
                            oldest |-> Some(oldestRequest), remaining |-> remaining]
             ELSE [ts |-> cleaned, kind |-> "conservative",
                   slept |-> CONSERVATIVE_DELAY_MS,
                   oldest |-> None, remaining |-> remaining]
        ELSE [ts |-> cleaned, kind |-> "none", slept |-> 0,
              oldest |-> None, remaining |-> remaining]

\* waitIfNeeded from the moment its timer fires, at t: cleanup() after the
\* computed sleep, nothing after the conservative one.
waitIfNeededEnd(ts, t, kind) == IF kind = "window" THEN cleanup(ts, t) ELSE ts

NoWait == [kind |-> "idle", slept |-> 0, header |-> None, remaining |-> 0,
           oldest |-> None]
WaitRecord(w, hdr) ==
    [kind |-> w.kind, slept |-> w.slept, header |-> hdr,
     remaining |-> w.remaining, oldest |-> w.oldest]

\* getClient(): the budget of the limiter it constructs.
getClientBudget(userToken) == IF userToken THEN AuthBudget ELSE UnauthBudget

----------------------------------------------------------------------------
(* Strings and numbers                                                     *)

Digits == <<"0", "1", "2", "3", "4", "5", "6", "7", "8", "9">>
IsDigit(c) == \E d \in 1..10 : Digits[d] = c
DigitValue(c) == (CHOOSE d \in 1..10 : Digits[d] = c) - 1
\* StrWhiteSpaceChar, the characters parseInt skips before the number: TAB,
\* LF, VT, FF, CR, space, and the white space and line terminators outside
\* ASCII.  A character outside ASCII is written as its code point
\* ("U+00A0"), one element of the string like any other character.
IsSpace(c) ==
    c \in {"\t", "\n", "", "\f", "\r", " ",
           "U+00A0", "U+1680", "U+2000", "U+2001", "U+2002", "U+2003", "U+2004",
           "U+2005", "U+2006", "U+2007", "U+2008", "U+2009", "U+200A", "U+2028",
           "U+2029", "U+202F", "U+205F", "U+3000", "U+FEFF"}

\* The value of a string of decimal digits.
RECURSIVE DigitsValue(_)
DigitsValue(s) ==
    IF Len(s) = 0 THEN 0
    ELSE 10 * DigitsValue(SubSeq(s, 1, Len(s) - 1)) + DigitValue(s[Len(s)])

\* parseInt(s, 10): leading white space, an optional sign, then the longest
\* run of digits; NaN (None) when there is no digit.
parseInt(s) ==
    LET skip == CHOOSE k \in 0..Len(s) :
                    /\ \A q \in 1..k : IsSpace(s[q])
                    /\ k < Len(s) => ~IsSpace(s[k + 1])
        signed == skip < Len(s) /\ s[skip + 1] \in {"-", "+"}
        start == IF signed THEN skip + 2 ELSE skip + 1
        stop == CHOOSE k \in (start - 1)..Len(s) :
                    /\ \A q \in start..k : IsDigit(s[q])
                    /\ k < Len(s) => ~IsDigit(s[k + 1])
        magnitude == DigitsValue(SubSeq(s, start, stop))
    IN  IF stop < start THEN None
        ELSE IF signed /\ s[skip + 1] = "-" THEN Some(0 - magnitude)
        ELSE Some(magnitude)

\* String(n) of an integer.
RECURSIVE NatToString(_)
NatToString(n) ==
    IF n < 10 THEN <<Digits[n + 1]>>
    ELSE NatToString(n \div 10) \o <<Digits[(n % 10) + 1]>>
NumberToString(n) == IF n < 0 THEN <<"-">> \o NatToString(0 - n) ELSE NatToString(n)

\* s.match(/(\d{4})/): the leftmost four consecutive digits, or no match.
matchFourDigits(s) ==
    LET hits == {p \in 1..(Len(s) - 3) : \A q \in p..(p + 3) : IsDigit(s[q])}
    IN  IF hits = {} THEN None
        ELSE LET p == CHOOSE x \in hits : \A y \in hits : x <= y
             IN  Some(SubSeq(s, p, p + 3))

\* sep-joined concatenation: Array.prototype.join.
RECURSIVE join(_, _)
join(parts, sep) ==
    IF Len(parts) = 0 THEN <<>>
    ELSE IF Len(parts) = 1 THEN parts[1]
    ELSE parts[1] \o sep \o join(Tail(parts), sep)

DEFAULT_ARTIST ==
    <<"U", "n", "k", "n", "o", "w", "n">>
DEFAULT_TITLE ==
    <<"U", "n", "k", "n", "o", "w", "n">>
RELEASE_URL_BASE ==
    <<"h", "t", "t", "p", "s", ":", "/", "/", "w", "w", "w", ".", "d",
      "i", "s", "c", "o", "g", "s", ".", "c", "o", "m", "/", "r", "e",
      "l", "e", "a", "s", "e", "/">>
HEADER_ARTIST ==
    <<"O", "r", "i", "g", "i", "n", "a", "l", " ", "A", "r", "t", "i",
      "s", "t">>
HEADER_TITLE ==
    <<"O", "r", "i", "g", "i", "n", "a", "l", " ", "T", "i", "t", "l",
      "e">>
HEADER_RELEASE_ID ==
    <<"O", "r", "i", "g", "i", "n", "a", "l", " ", "R", "e", "l", "e",
      "a", "s", "e", " ", "I", "D">>
HEADER_YEAR_SUFFIX ==
    <<"+", " ", "R", "e", "l", "e", "a", "s", "e", " ", "Y", "e", "a",
      "r">>
HEADER_TITLE_SUFFIX ==
    <<"+", " ", "R", "e", "l", "e", "a", "s", "e", " ", "T", "i", "t",
      "l", "e">>
HEADER_ID_SUFFIX ==
    <<"+", " ", "R", "e", "l", "e", "a", "s", "e", " ", "I", "D">>
HEADER_URL_SUFFIX ==
    <<"+", " ", "R", "e", "l", "e", "a", "s", "e", " ", "U", "R", "L">>

----------------------------------------------------------------------------
(* Result classifier: the filter and the map of                            *)
(* checkReleaseForPostMinYearVersions.  A version of the remote service is *)
(* [id, title, year, released]: year an optional number, title and         *)
(* released strings, the empty string standing for an absent field too     *)
(* (both are falsy).                                                       *)

\* `year && typeof year === "number"`
yearIsUsable(version) == IsSome(version.year) /\ Get(version.year) # 0

\* The callback of versions.filter(...).
versionFilterExclusive(version) ==
    IF yearIsUsable(version) THEN Get(version.year) > MIN_YEAR
    ELSE IF Len(version.released) > 0
         THEN LET yearMatch == matchFourDigits(version.released)
              IN  IF IsSome(yearMatch)
                  THEN Get(parseInt(Get(yearMatch))) > MIN_YEAR
                  ELSE FALSE
         ELSE FALSE
versionFilter(version) ==
    IF yearIsUsable(version) THEN Get(version.year) >= MIN_YEAR
    ELSE IF Len(version.released) > 0
         THEN LET yearMatch == matchFourDigits(version.released)
              IN  IF IsSome(yearMatch)
                  THEN Get(parseInt(Get(yearMatch))) >= MIN_YEAR
                  ELSE FALSE
         ELSE FALSE

\* The callback of .map(...): the VersionCandidate.
versionMapYearFieldOnly(version) ==
    [id |-> version.id,
     title |-> IF Len(version.title) > 0 THEN version.title ELSE DEFAULT_TITLE,
     year |-> IF yearIsUsable(version) THEN Get(version.year) ELSE 0,
     url |-> RELEASE_URL_BASE \o NumberToString(version.id)]
versionMap(version) ==
    LET yearMatch == matchFourDigits(version.released)
        releaseYear ==
            IF yearIsUsable(version) THEN Get(version.year)
            ELSE IF Len(version.released) > 0 /\ IsSome(yearMatch)
                 THEN Get(parseInt(Get(yearMatch)))
                 ELSE 0
    IN  [id |-> version.id,
         title |-> IF Len(version.title) > 0 THEN version.title ELSE DEFAULT_TITLE,
         year |-> releaseYear,
         url |-> RELEASE_URL_BASE \o NumberToString(version.id)]

\* versions.filter(...).map(...)
postMinYearReleasesOf(versions) ==
    LET filtered == SelectSeq(versions, versionFilter)
    IN  [k \in DOMAIN filtered |-> versionMap(filtered[k])]

\* The ReleaseInfo returned at the end of a lookup that reached the filter.
classifiedResult(call, versions) ==
    LET postMinYearReleases == postMinYearReleasesOf(versions)
    IN  [releaseId |-> call.releaseId, artist |-> call.artist, title |-> call.title,
         hasPostMinYearRelease |-> Len(postMinYearReleases) > 0,
         postMinYearReleases |-> postMinYearReleases]

\* The ReleaseInfo returned for a release without master and by the outer
\* catch.
emptyResult(call) ==
    [releaseId |-> call.releaseId, artist |-> call.artist, title |-> call.title,
     hasPostMinYearRelease |-> FALSE, postMinYearReleases |-> <<>>]

----------------------------------------------------------------------------
(* Formatter                                                               *)

\* escapeCsvField on String(field).
escapeCsvField(str) ==
    IF \E k \in 1..Len(str) : str[k] \in {",", "\"", "\n"}
    THEN LET quotes == {k \in 1..Len(str) : str[k] = "\""}
             doubled(k) == IF k \in quotes THEN <<"\"", "\"">> ELSE <<str[k]>>
             parts == [k \in 1..Len(str) |-> doubled(k)]
         IN  <<"\"">> \o join(parts, <<>>) \o <<"\"">>
    ELSE str

\* CSV_OUTPUT.getHeaders()
getHeaders ==
    <<HEADER_ARTIST, HEADER_TITLE, HEADER_RELEASE_ID,
      NumberToString(MIN_YEAR) \o HEADER_YEAR_SUFFIX,
      NumberToString(MIN_YEAR) \o HEADER_TITLE_SUFFIX,
      NumberToString(MIN_YEAR) \o HEADER_ID_SUFFIX,
      NumberToString(MIN_YEAR) \o HEADER_URL_SUFFIX>>

csvLine(fields) == join([k \in DOMAIN fields |-> escapeCsvField(fields[k])], <<",">>)

\* The row pushed for one (result, release) pair.
csvRowOf(result, rel) ==
    csvLine(<<IF Len(result.artist) > 0 THEN result.artist ELSE DEFAULT_ARTIST,
              IF Len(result.title) > 0 THEN result.title ELSE DEFAULT_TITLE,
              NumberToString(result.releaseId),
              NumberToString(rel.year),
              rel.title,
              NumberToString(rel.id),
              rel.url>>)

\* The rows pushed for one result: none when it has no release.
rowsOfResultFirstOnly(result) ==
    IF Len(result.postMinYearReleases) = 0 THEN <<>>
    ELSE <<csvRowOf(result, result.postMinYearReleases[1])>>
rowsOfResult(result) ==
    IF Len(result.postMinYearReleases) = 0 THEN <<>>
    ELSE [k \in 1..Len(result.postMinYearReleases) |->
            csvRowOf(result, result.postMinYearReleases[k])]

RECURSIVE dataRows(_)
dataRows(rs) == IF Len(rs) = 0 THEN <<>> ELSE rowsOfResult(Head(rs)) \o dataRows(Tail(rs))

\* writeResultsToCsv: the content handed to writeFileSync.
writeResultsToCsv(rs) == join(<<csvLine(getHeaders)>> \o dataRows(rs), <<"\n">>)

----------------------------------------------------------------------------
(* The remote service's catalogue and the input files of the model.        *)

\* getRelease(id).data: release 222 has no master.
ReleaseData(id) ==
    [master_id |-> IF id = 111 THEN Some(1000)
                   ELSE IF id = 333 THEN Some(3000)
                   ELSE None]

\* getMasterVersions(master_id).data.versions
MasterVersions(masterId) ==
    IF masterId = 1000
    THEN <<[id |-> 8, title |-> <<"O", "r", "i", "g", "i", "n", "a", "l">>, year |-> Some(2010), released |-> <<>>],
           [id |-> 9, title |-> <<"R", "e", "i", "s", "s", "u", "e">>, year |-> Some(2016), released |-> <<>>]>>
    ELSE <<[id |-> 31, title |-> <<"L", "i", "v", "e", ",", " ", "2", "0", "1", "5">>, year |-> None, released |-> <<"2", "0", "1", "5", "-", "0", "3", "-", "0", "1">>],
           [id |-> 32, title |-> <<>>, year |-> None, released |-> <<"u", "n", "k", "n", "o", "w", "n">>],
           [id |-> 33, title |-> <<"1", "2", "\"", " ", "m", "i", "x">>, year |-> Some(0), released |-> <<"x", " ", "2", "0", "1", "9">>],
           [id |-> 34, title |-> <<"L", "P">>, year |-> Some(2014), released |-> <<"x", " ", "2", "0", "1", "9">>]>>

Row111 == [release_id |-> <<"1", "1", "1">>, Artist |-> <<"A">>, Title |-> <<"T">>]
Row222 == [release_id |-> <<"2", "2", "2">>, Artist |-> <<>>, Title |-> <<"B", ",", "C">>]
Row333 == [release_id |-> <<" ", "3", "3", "3", "x">>, Artist |-> <<"C">>, Title |-> <<>>]
RowNoId == [release_id |-> <<"n", "/", "a">>, Artist |-> <<"D">>, Title |-> <<"E">>]
RowZero == [release_id |-> <<"0">>, Artist |-> <<"D">>, Title |-> <<"E">>]

Unreadable == [readable |-> FALSE, rows |-> <<>>]
InputFile(rows) == [readable |-> TRUE, rows |-> rows]
Inputs ==
    {Unreadable,
     InputFile(<<RowNoId, RowZero>>),
     InputFile(<<Row111, Row222>>),
     InputFile(<<Row111, RowNoId, Row333, Row222, RowZero, Row111>>)}

\* What a response's rateLimit?.remaining may be: absent, or a figure.
HeaderFigures == {0, 2, 3}
Headers == {None} \cup {Some(h) : h \in HeaderFigures}
\* error.statusCode of a rejected call: rate limited, or any other error.
FailureStatuses == {429, 500}
\* Time a remote call takes.
Latencies == {0, Latency}

----------------------------------------------------------------------------
(* main() and checkReleaseForPostMinYearVersions                           *)

\* extractReleaseIds
RECURSIVE extractReleaseIds(_)
extractReleaseIds(rows) ==
    IF Len(rows) = 0 THEN <<>>
    ELSE LET row == Head(rows)
             releaseId == parseInt(row.release_id)
             rest == extractReleaseIds(Tail(rows))
         IN  IF IsSome(releaseId) /\ Get(releaseId) > 0
             THEN <<[id |-> Get(releaseId),
                     artist |-> IF Len(row.Artist) > 0 THEN row.Artist ELSE DEFAULT_ARTIST,
                     title |-> IF Len(row.Title) > 0 THEN row.Title ELSE DEFAULT_TITLE]>>
                  \o rest
             ELSE rest

\* The call main makes for target t (retryCount defaults to 0).
firstCall(t) == [releaseId |-> t.id, artist |-> t.artist, title |-> t.title, retryCount |-> 0]

\* The recursive call of a retry: (client, releaseId, artist, title, retryCount + 1).
retryCallDroppingNames(call) ==
    [releaseId |-> call.releaseId, artist |-> <<>>, title |-> <<>>,
     retryCount |-> call.retryCount + 1]
retryCallSameCount(call) ==
    [releaseId |-> call.releaseId, artist |-> call.artist, title |-> call.title,
     retryCount |-> call.retryCount]
retryCall(call) ==
    [releaseId |-> call.releaseId, artist |-> call.artist, title |-> call.title,
     retryCount |-> call.retryCount + 1]

\* baseDelay * Math.pow(2, retryCount)
backoffDelayLinear(retryCount) == BASE_DELAY_MS * (retryCount + 1)
backoffDelay(retryCount) == BASE_DELAY_MS * (2 ^ retryCount)

\* The catch around one fetch: retry after a backoff, or rethrow.
innerCatchInclusive(statusCode, retryCount) ==
    IF statusCode = 429 /\ retryCount <= MAX_RETRIES THEN "retry" ELSE "throw"
innerCatchOneFewer(statusCode, retryCount) ==
    IF statusCode = 429 /\ retryCount < MAX_RETRIES - 1 THEN "retry" ELSE "throw"
innerCatch(statusCode, retryCount) ==
    IF statusCode = 429 /\ retryCount < MAX_RETRIES THEN "retry" ELSE "throw"

\* The outer catch: retry after a backoff, or log and return the empty result.
outerCatchRethrow(statusCode, retryCount) ==
    IF statusCode = 429 /\ retryCount < MAX_RETRIES THEN "retry" ELSE "throw"
outerCatchRetryAny(statusCode, retryCount) ==
    IF retryCount < MAX_RETRIES THEN "retry" ELSE "return"
outerCatch(statusCode, retryCount) ==
    IF statusCode = 429 /\ retryCount < MAX_RETRIES THEN "retry" ELSE "return"

\* What a rejected fetch leads to: the inner catch, then the outer one for
\* what the inner one rethrows.
onRejected(statusCode, retryCount) ==
    IF innerCatch(statusCode, retryCount) = "retry" THEN "retryInner"
    ELSE IF outerCatch(statusCode, retryCount) = "retry" THEN "retryOuter"
    ELSE outerCatch(statusCode, retryCount)

\* main's accumulation of one result.
pushMatchedAlways(acc, result) == Append(acc, result)
pushMatched(acc, result) ==
    IF result.hasPostMinYearRelease THEN Append(acc, result) ELSE acc

NoCall == [releaseId |-> 0, artist |-> <<>>, title |-> <<>>, retryCount |-> 0]
NoRelease == [master_id |-> None]
NoPending == [delay |-> 0, fetch |-> "none", via |-> "none"]
NoAttempt == [calls |-> 0, fulfilled |-> 0, records |-> 0, rejected |-> 0,
              errors |-> 0, versionsRejected |-> 0,
              waits |-> <<>>, ops |-> <<>>, outcome |-> "running"]
NoObserved == [op |-> "none", value |-> 0, waits |-> 0]

\* The last few operations of the lookup in progress.
OpsKept == 4
noteOps(ops, new) ==
    LET all == ops \o new
    IN  IF Len(all) > OpsKept THEN SubSeq(all, Len(all) - OpsKept + 1, Len(all)) ELSE all

\* Issue times of the window (t - WINDOW_MS, t].
inTrailingWindow(log, t) == SelectSeq(log, LAMBDA x : x > t - WINDOW_MS)

\* d ms pass: the tracker's timestamps (tsAfter, as the code left them) and
\* the issue times are rewritten relative to the new present.
Elapse(d, tsAfter) ==
    /\ requestTimestamps' = elapse(tsAfter, d)
    /\ callLog' = inTrailingWindow(elapse(callLog, d), now)

MainIdle ==
    /\ isAuthenticated = FALSE
    /\ releaseIds = <<>>
    /\ i = 0
    /\ cur = NoCall
    /\ release = NoRelease
    /\ pending = NoPending
    /\ results = <<>>
    /\ matched = <<>>
    /\ csvContent = None
    /\ exitCode = 0
    /\ callLog = <<>>
    /\ attempt = NoAttempt
    /\ progressLog = <<>>
TrackerIdle ==
    /\ requestTimestamps = <<>>
    /\ lastWait = NoWait
ProbeIdle ==
    /\ recorded = <<>>
    /\ observed = NoObserved
    /\ sleeping = <<>>
    /\ clock = 0
OffIdle ==
    /\ offStage = "idle"
    /\ offVersions = <<>>
    /\ offResults = <<>>
    /\ offRows = <<>>

Init ==
    /\ pc = "start"
    /\ input \in Inputs
    /\ maxRequests = 0
    /\ MainIdle
    /\ TrackerIdle
    /\ ProbeIdle
    /\ OffIdle

\* parseCsvFile(filePath): the records, or an exception (None) when the file
\* cannot be read or parsed.
parseCsvFileLenient(file) == Some(file.rows)
parseCsvFile(file) == IF file.readable THEN Some(file.rows) ELSE None

\* main up to the loop: parseCsvFile, extractReleaseIds, getClient.
ReadInput ==
    /\ pc = "start"
    /\ IF IsSome(parseCsvFile(input))
       THEN \E userToken \in BOOLEAN :
               /\ releaseIds' = extractReleaseIds(Get(parseCsvFile(input)))
               /\ isAuthenticated' = userToken
               /\ maxRequests' = getClientBudget(userToken)
               /\ pc' = "loop"
               /\ exitCode' = exitCode
       ELSE /\ exitCode' = 1
            /\ pc' = "exit"
            /\ UNCHANGED <<releaseIds, isAuthenticated, maxRequests>>
    /\ UNCHANGED <<requestTimestamps, lastWait, input, i, cur, release, pending,
                   results, matched, csvContent, historyVars, probeVars, offVars>>

\* `i > 0 && i % PROGRESS.REPORT_INTERVAL === 0`, at the start of iteration i.
shouldReportIncludingFirst(index) == index % ReportInterval = 0
shouldReport(index) == index > 0 /\ index % ReportInterval = 0

\* One iteration of the loop up to the first await of the lookup: the
\* progress report, then the call with retryCount 0.
BeginLookupWithoutAwait ==
    /\ pc = "loop"
    /\ i < Len(releaseIds)
    /\ cur' = firstCall(releaseIds[i + 1])
    /\ results' = Append(results, emptyResult(cur'))
    /\ i' = i + 1
    /\ release' = NoRelease
    /\ attempt' = NoAttempt
    /\ pc' = "gateRelease"
    /\ UNCHANGED <<trackerVars, input, isAuthenticated, releaseIds, pending, matched,
                   csvContent, exitCode, callLog, progressLog, probeVars, offVars>>
BeginLookup ==
    /\ pc = "loop"
    /\ i < Len(releaseIds)
    /\ IF shouldReport(i)
       THEN /\ requestTimestamps' = cleanup(requestTimestamps, now)
            /\ progressLog' = Append(progressLog,
                   [processed |-> i,
                    requestsInWindow |-> getRequestsInWindow(requestTimestamps, now),
                    remaining |-> getRemaining(requestTimestamps, now, maxRequests)])
       ELSE UNCHANGED <<requestTimestamps, progressLog>>
    /\ cur' = firstCall(releaseIds[i + 1])
    /\ release' = NoRelease
    /\ attempt' = NoAttempt
    /\ pc' = "gateRelease"
    /\ UNCHANGED <<maxRequests, lastWait, input, isAuthenticated, releaseIds, i,
                   pending, results, matched, csvContent, exitCode, callLog,
                   probeVars, offVars>>

\* `await rateLimiter.waitIfNeeded()` up to its sleep, and the remote call
\* issued at once when it returns without sleeping.
GateSkipped(at, asleep, next, fetch) ==
    /\ pc = at
    /\ callLog' = Append(callLog, now)
    /\ attempt' = [attempt EXCEPT !.calls = @ + 1, !.ops = noteOps(@, <<fetch>>)]
    /\ pc' = next
    /\ UNCHANGED <<trackerVars, input, isAuthenticated, releaseIds, i, cur, release,
                   pending, results, matched, csvContent, exitCode, progressLog,
                   probeVars, offVars>>
Gate(at, asleep, next, fetch) ==
    /\ pc = at
    /\ LET b == waitIfNeededBegin(requestTimestamps, now, maxRequests, None)
       IN  /\ requestTimestamps' = b.ts
           /\ lastWait' = WaitRecord(b, None)
           /\ IF b.slept > 0
              THEN /\ pc' = asleep
                   /\ attempt' = [attempt EXCEPT !.ops = noteOps(@, <<"gate">>)]
                   /\ callLog' = callLog
              ELSE /\ pc' = next
                   /\ callLog' = Append(inTrailingWindow(callLog, now), now)
                   /\ attempt' = [attempt EXCEPT !.calls = @ + 1,
                                                 !.ops = noteOps(@, <<"gate", fetch>>)]
    /\ UNCHANGED <<maxRequests, input, isAuthenticated, releaseIds, i, cur, release,
                   pending, results, matched, csvContent, exitCode, progressLog,
                   probeVars, offVars>>

\* The timer of the gate's waitIfNeeded fires: its cleanup(), the return,
\* and the remote call.
GateWake(asleep, next, fetch) ==
    /\ pc = asleep
    /\ timerFires(lastWait.slept)
    /\ LET t == sleep(now, lastWait.slept)
       IN  /\ requestTimestamps' =
                 elapse(waitIfNeededEnd(requestTimestamps, t, lastWait.kind), t - now)
           /\ callLog' = Append(inTrailingWindow(elapse(callLog, t - now), now), now)
    /\ attempt' = [attempt EXCEPT !.calls = @ + 1, !.ops = noteOps(@, <<fetch>>)]
    /\ pc' = next
    /\ UNCHANGED <<maxRequests, lastWait, input, isAuthenticated, releaseIds, i, cur,
                   release, pending, results, matched, csvContent, exitCode,
                   progressLog, probeVars, offVars>>

GateRelease == Gate("gateRelease", "sleepBeforeRelease", "awaitRelease", "getRelease")
GateReleaseWake == GateWake("sleepBeforeRelease", "awaitRelease", "getRelease")
GateVersions == Gate("gateVersions", "sleepBeforeVersions", "awaitVersions", "getMasterVersions")
GateVersionsWake == GateWake("sleepBeforeVersions", "awaitVersions", "getMasterVersions")

\* The lookup returns `result` to main, which pushes it and goes on.
Complete(result, outcome, att) ==
    /\ results' = Append(results, result)
    /\ matched' = pushMatched(matched, result)
    /\ i' = i + 1
    /\ attempt' = [att EXCEPT !.outcome = outcome]
    /\ pc' = "loop"
    /\ UNCHANGED <<exitCode, pending, cur>>

\* After a fulfilled call: recordRequest, then waitIfNeeded with the
\* response's remaining figure when it carries one, up to its sleep (slept
\* is the delay of the timer it sets, 0 without one).
RecordedTwice(t, hdr) ==
    LET ts1 == recordRequest(recordRequest(requestTimestamps, t), t)
    IN  IF IsSome(hdr)
        THEN LET b == waitIfNeededBegin(ts1, t, maxRequests, hdr)
             IN  [ts |-> b.ts, now |-> t, wait |-> WaitRecord(b, hdr), slept |-> b.slept,
                  records |-> 2, ops |-> <<"record", "record", "paced">>]
        ELSE [ts |-> ts1, now |-> t, wait |-> lastWait, slept |-> 0,
              records |-> 2, ops |-> <<"record", "record">>]
RecordedAfterPacing(t, hdr) ==
    IF IsSome(hdr)
    THEN LET b == waitIfNeededBegin(requestTimestamps, t, maxRequests, hdr)
         IN  [ts |-> recordRequest(b.ts, t), now |-> t,
              wait |-> WaitRecord(b, hdr), slept |-> b.slept,
              records |-> 1, ops |-> <<"record", "paced">>]
    ELSE [ts |-> recordRequest(requestTimestamps, t), now |-> t, wait |-> lastWait,
          slept |-> 0, records |-> 1, ops |-> <<"record">>]
Recorded(t, hdr) ==
    LET ts1 == recordRequest(requestTimestamps, t)
    IN  IF IsSome(hdr)
        THEN LET b == waitIfNeededBegin(ts1, t, maxRequests, hdr)
             IN  [ts |-> b.ts, now |-> t, wait |-> WaitRecord(b, hdr), slept |-> b.slept,
                  records |-> 1, ops |-> <<"record", "paced">>]
        ELSE [ts |-> ts1, now |-> t, wait |-> lastWait, slept |-> 0,
              records |-> 1, ops |-> <<"record">>]

\* A rejected call: backoff and retry, or the empty result, or (never, with
\* these catches) an exception escaping to main().catch.
Rejected(statusCode, t, fetch) ==
    LET att == [attempt EXCEPT
                   !.rejected = IF statusCode = 429 THEN @ + 1 ELSE @,
                   !.errors = IF statusCode = 429 THEN @ ELSE @ + 1,
                   !.versionsRejected =
                       IF statusCode = 429 /\ fetch = "getMasterVersions" THEN @ + 1 ELSE @,
                   !.ops = noteOps(@, <<"rejected">>)]
        then == onRejected(statusCode, cur.retryCount)
    IN  /\ Elapse(t - now, requestTimestamps)
        /\ IF then \in {"retryInner", "retryOuter"}
           THEN /\ pending' = [delay |-> backoffDelay(cur.retryCount), fetch |-> fetch,
                               via |-> then]
                /\ attempt' = att
                /\ pc' = "backoff"
                /\ UNCHANGED <<results, matched, i, exitCode, cur>>
           ELSE IF then = "return"
           THEN Complete(emptyResult(cur), "error", att)
           ELSE /\ exitCode' = 1
                /\ pc' = "exit"
                /\ attempt' = [att EXCEPT !.outcome = "thrown"]
                /\ UNCHANGED <<results, matched, i, pending, cur>>
        /\ UNCHANGED <<maxRequests, lastWait, input, isAuthenticated,
                       releaseIds, release, csvContent, progressLog,
                       probeVars, offVars>>

\* `!release.master_id` is false: the release names a master (an absent
\* master_id and the number 0 are both falsy).
hasMasterAlways(data) == TRUE
hasMaster(data) == IsSome(data.master_id) /\ Get(data.master_id) # 0

\* The lookup after the release fetch and its pacing: the empty result for
\* a release without master, else on to the gate of the versions fetch.
AfterRelease(data, att) ==
    IF ~hasMaster(data)
    THEN Complete(emptyResult(cur), "noMaster", att)
    ELSE /\ pc' = "gateVersions"
         /\ attempt' = att
         /\ UNCHANGED <<results, matched, i, exitCode, pending, cur>>

\* getRelease fulfilled: recordRequest, and waitIfNeeded(remaining) up to
\* its sleep.
ReleaseSuccess ==
    /\ pc = "awaitRelease"
    /\ \E hdr \in Headers, lat \in Latencies :
        LET r == Recorded(now + lat, hdr)
            data == ReleaseData(cur.releaseId)
            att == [attempt EXCEPT !.ops = noteOps(@, r.ops),
                                   !.fulfilled = @ + 1,
                                   !.records = @ + r.records]
        IN  /\ Elapse(r.now - now, r.ts)
            /\ lastWait' = r.wait
            /\ release' = data
            /\ IF r.slept > 0
               THEN /\ pc' = "sleepAfterRelease"
                    /\ attempt' = att
                    /\ UNCHANGED <<results, matched, i, exitCode, pending, cur>>
               ELSE AfterRelease(data, att)
    /\ UNCHANGED <<maxRequests, input, isAuthenticated, releaseIds, csvContent,
                   progressLog, probeVars, offVars>>

\* The timer of the pacing after getRelease fires: cleanup(), then the
\* lookup goes on.
ReleasePaced ==
    /\ pc = "sleepAfterRelease"
    /\ timerFires(lastWait.slept)
    /\ LET t == sleep(now, lastWait.slept)
       IN  Elapse(t - now, waitIfNeededEnd(requestTimestamps, t, lastWait.kind))
    /\ AfterRelease(release, attempt)
    /\ UNCHANGED <<maxRequests, lastWait, input, isAuthenticated, releaseIds, release,
                   csvContent, progressLog, probeVars, offVars>>

\* getRelease rejected.
ReleaseFailure ==
    /\ pc = "awaitRelease"
    /\ \E statusCode \in FailureStatuses, lat \in Latencies :
        Rejected(statusCode, now + lat, "getRelease")

\* The lookup after the versions fetch and its pacing: filter, map, return.
AfterVersions(att) ==
    Complete(classifiedResult(cur, MasterVersions(Get(release.master_id))),
             "classified", att)

\* getMasterVersions fulfilled: recordRequest, and waitIfNeeded(remaining)
\* up to its sleep.
VersionsSuccess ==
    /\ pc = "awaitVersions"
    /\ \E hdr \in Headers, lat \in Latencies :
        LET r == Recorded(now + lat, hdr)
            att == [attempt EXCEPT !.ops = noteOps(@, r.ops),
                                   !.fulfilled = @ + 1,
                                   !.records = @ + r.records]
        IN  /\ Elapse(r.now - now, r.ts)
            /\ lastWait' = r.wait
            /\ IF r.slept > 0
               THEN /\ pc' = "sleepAfterVersions"
                    /\ attempt' = att
                    /\ UNCHANGED <<results, matched, i, exitCode, pending, cur>>
               ELSE AfterVersions(att)
    /\ UNCHANGED <<maxRequests, input, isAuthenticated, releaseIds, release, csvContent,
                   progressLog, probeVars, offVars>>

\* The timer of the pacing after getMasterVersions fires: cleanup(), then
\* the lookup goes on.
VersionsPaced ==
    /\ pc = "sleepAfterVersions"
    /\ timerFires(lastWait.slept)
    /\ LET t == sleep(now, lastWait.slept)
       IN  Elapse(t - now, waitIfNeededEnd(requestTimestamps, t, lastWait.kind))
    /\ AfterVersions(attempt)
    /\ UNCHANGED <<maxRequests, lastWait, input, isAuthenticated, releaseIds, release,
                   csvContent, progressLog, probeVars, offVars>>

\* getMasterVersions rejected.
VersionsFailure ==
    /\ pc = "awaitVersions"
    /\ \E statusCode \in FailureStatuses, lat \in Latencies :
        Rejected(statusCode, now + lat, "getMasterVersions")

\* Where the recursive call of a catch takes up the lookup: at the top of
\* the function, the gate of the release fetch, whichever fetch was rejected.
resumeAtRejectedFetch(fetch) ==
    IF fetch = "getMasterVersions" THEN "gateVersions" ELSE "gateRelease"
resumeAfterBackoff(fetch) == "gateRelease"

\* `await sleep(delay)` of a catch, then the recursive call, which starts
\* the whole attempt again.
Backoff ==
    /\ pc = "backoff"
    /\ timerFires(pending.delay)
    /\ Elapse(sleep(now, pending.delay) - now, requestTimestamps)
    /\ cur' = retryCall(cur)
    /\ release' = NoRelease
    /\ attempt' = [attempt EXCEPT
                      !.waits = Append(@, [delay |-> pending.delay,
                                           retryCount |-> cur.retryCount]),
                      !.ops = noteOps(@, <<"backoff">>)]
    /\ pending' = NoPending
    /\ pc' = resumeAfterBackoff(pending.fetch)
    /\ UNCHANGED <<maxRequests, lastWait, input, isAuthenticated,
                   releaseIds, i, results, matched, csvContent, exitCode,
                   progressLog, probeVars, offVars>>

\* writeFileSync(outputPath, csvContent, "utf-8"): the file's content, or an
\* exception (None) when the file cannot be written.
writeFileSync(content, writable) == IF writable THEN Some(content) ELSE None

\* After the loop: the output file, written only when something matched;
\* an exception of writeFileSync leaves main, and main().catch exits with
\* status 1.
Finish ==
    /\ pc = "loop"
    /\ i = Len(releaseIds)
    /\ IF Len(matched) > 0
       THEN \E writable \in BOOLEAN :
               LET written == writeFileSync(writeResultsToCsv(matched), writable)
               IN  /\ csvContent' = IF IsSome(written) THEN written ELSE None
                   /\ exitCode' = IF IsSome(written) THEN exitCode ELSE 1
       ELSE /\ csvContent' = None
            /\ exitCode' = exitCode
    /\ pc' = "exit"
    /\ UNCHANGED <<trackerVars, input, isAuthenticated, releaseIds, i, cur, release,
                   pending, results, matched, historyVars, probeVars, offVars>>

Next ==
    \/ ReadInput
    \/ BeginLookup
    \/ GateRelease
    \/ GateReleaseWake
    \/ ReleaseSuccess
    \/ ReleasePaced
    \/ ReleaseFailure
    \/ GateVersions
    \/ GateVersionsWake
    \/ VersionsSuccess
    \/ VersionsPaced
    \/ VersionsFailure
    \/ Backoff
    \/ Finish

Spec == Init /\ [][Next]_vars

\* The run with the event loop's progress: a settled promise's continuation
\* and an expired timer's callback are run, and the remote service settles
\* every call, so a step that can be taken is eventually taken.
\* The liveness check runs on the shorter input files.
InputsLive ==
    {Unreadable,
     InputFile(<<RowNoId, RowZero>>),
     InputFile(<<Row222, Row111, Row222>>)}
InitLive ==
    /\ pc = "start"
    /\ input \in InputsLive
    /\ maxRequests = 0
    /\ MainIdle
    /\ TrackerIdle
    /\ ProbeIdle
    /\ OffIdle
SpecLive == InitLive /\ [][Next]_vars /\ WF_vars(Next)

----------------------------------------------------------------------------
(* SpecTracker: a RateLimiter driven by arbitrary calls of its methods     *)
(* while the clock advances.                                               *)

ClockSteps == {ClockStep}
Budgets == {getClientBudget(FALSE), getClientBudget(TRUE)}

InitTracker ==
    /\ pc = "tracker"
    /\ input = Unreadable
    /\ maxRequests \in Budgets
    /\ MainIdle
    /\ TrackerIdle
    /\ ProbeIdle
    /\ OffIdle

\* Time passes between two calls, up to the moment the next timer fires.
TrackerAdvance ==
    /\ pc = "tracker"
    /\ \E d \in ClockSteps \cup {sleeping[k].due : k \in DOMAIN sleeping} :
        /\ d > 0
        /\ \A k \in DOMAIN sleeping : d <= sleeping[k].due
        /\ clock + d <= MaxClock
        /\ clock' = clock + d
        /\ requestTimestamps' = elapse(requestTimestamps, d)
        /\ recorded' = elapse(recorded, d)
        /\ sleeping' = [k \in DOMAIN sleeping |->
                           [sleeping[k] EXCEPT !.due = @ - d]]
    /\ observed' = [observed EXCEPT !.op = "advance", !.value = 0]
    /\ UNCHANGED <<maxRequests, lastWait, mainVars, historyVars, offVars>>

TrackerRecordRequest ==
    /\ pc = "tracker"
    /\ Len(recorded) < MaxRecords
    /\ requestTimestamps' = recordRequest(requestTimestamps, now)
    /\ recorded' = Append(recorded, now)
    /\ observed' = [observed EXCEPT !.op = "recordRequest", !.value = 0]
    /\ UNCHANGED <<maxRequests, lastWait, clock, sleeping, mainVars, historyVars, offVars>>

TrackerGetRequestsInWindow ==
    /\ pc = "tracker"
    /\ requestTimestamps' = cleanup(requestTimestamps, now)
    /\ observed' = [observed EXCEPT
                       !.op = "getRequestsInWindow",
                       !.value = getRequestsInWindow(requestTimestamps, now)]
    /\ UNCHANGED <<maxRequests, lastWait, recorded, clock, sleeping, mainVars, historyVars, offVars>>

TrackerGetRemaining ==
    /\ pc = "tracker"
    /\ requestTimestamps' = cleanup(requestTimestamps, now)
    /\ observed' = [observed EXCEPT
                       !.op = "getRemaining",
                       !.value = getRemaining(requestTimestamps, now, maxRequests)]
    /\ UNCHANGED <<maxRequests, lastWait, recorded, clock, sleeping, mainVars, historyVars, offVars>>

\* waitIfNeeded(remainingFromHeader?) is called and runs up to its sleep;
\* the promise it returns stays pending until its timer fires.
TrackerWaitIfNeeded ==
    /\ pc = "tracker"
    /\ observed.waits < MaxWaits
    /\ \E hdr \in Headers :
        LET b == waitIfNeededBegin(requestTimestamps, now, maxRequests, hdr)
        IN  /\ clock + b.slept <= MaxClock
            /\ requestTimestamps' = b.ts
            /\ lastWait' = WaitRecord(b, hdr)
            /\ sleeping' = IF b.slept > 0
                           THEN Append(sleeping, [due |-> sleep(now, b.slept) - now,
                                                  kind |-> b.kind, slept |-> b.slept])
                           ELSE sleeping
            /\ observed' = [op |-> "waitIfNeeded", value |-> b.slept,
                            waits |-> observed.waits + 1]
    /\ UNCHANGED <<maxRequests, recorded, clock, mainVars, historyVars, offVars>>

\* The timer of a pending waitIfNeeded fires: its cleanup() after the
\* computed sleep, and the promise resolves. sleep() is a bare setTimeout,
\* so of the timers due at the same instant any one may fire first.
TrackerWaitResolved ==
    /\ pc = "tracker"
    /\ \E k \in DOMAIN sleeping :
        /\ sleeping[k].due = 0
        /\ timerFires(sleeping[k].slept)
        /\ requestTimestamps' = waitIfNeededEnd(requestTimestamps, now, sleeping[k].kind)
        /\ sleeping' = SubSeq(sleeping, 1, k - 1) \o SubSeq(sleeping, k + 1, Len(sleeping))
        /\ observed' = [observed EXCEPT
                           !.op = IF sleeping[k].kind = "window"
                                  THEN "resolvedWindow" ELSE "resolvedConservative",
                           !.value = sleeping[k].slept]
    /\ UNCHANGED <<maxRequests, lastWait, recorded, clock, mainVars, historyVars, offVars>>

NextTracker ==
    \/ TrackerAdvance
    \/ TrackerRecordRequest
    \/ TrackerGetRequestsInWindow
    \/ TrackerGetRemaining
    \/ TrackerWaitIfNeeded
    \/ TrackerWaitResolved

SpecTracker == InitTracker /\ [][NextTracker]_vars

----------------------------------------------------------------------------
(* SpecOffline: the filter/map and the formatter applied to version lists  *)
(* drawn from a pool of version shapes.                                    *)

VersionPool ==
    <<[id |-> 21, title |-> <<"A">>, year |-> Some(MIN_YEAR), released |-> <<>>],
      [id |-> 14, title |-> <<>>, year |-> Some(MIN_YEAR - 1), released |-> <<"2", "0", "1", "6", "-", "0", "1", "-", "0", "1">>],
      [id |-> 35, title |-> <<"B">>, year |-> Some(0), released |-> <<"2", "0", "1", "6">>],
      [id |-> 12, title |-> <<"a", ",", "\"", "b", "\n", "c">>, year |-> None, released |-> <<"2", "0", "1", "5", "-", "0", "3", "-", "0", "1">>],
      [id |-> 50, title |-> <<"C">>, year |-> None, released |-> <<"u", "n", "k", "n", "o", "w", "n">>],
      [id |-> 6, title |-> <<"D">>, year |-> None, released |-> <<"1", "2", "0", "1", "6">>],
      [id |-> 77, title |-> <<"E">>, year |-> None, released |-> <<>>],
      [id |-> 8, title |-> <<"F">>, year |-> None, released |-> <<"3", "1", "/", "1", "2", "/", "2", "0", "1", "4">>],
      [id |-> 43, title |-> <<"G">>, year |-> Some(MIN_YEAR + 1), released |-> <<"1", "9", "9", "9">>]>>

MaxVersions == 2
MaxResults == 2

OffTargets ==
    <<[id |-> 111, artist |-> <<"A", "r">>, title |-> <<"T", ",", "1">>],
      [id |-> 222, artist |-> <<>>, title |-> <<>>],
      [id |-> 333, artist |-> <<"C">>, title |-> <<"T">>]>>

\* The lists a master answers with: up to MaxVersions consecutive shapes of
\* the pool, from any starting shape, wrapping around.
VersionLists ==
    {[k \in 1..n |-> VersionPool[((s + k - 2) % Len(VersionPool)) + 1]] :
        n \in 0..MaxVersions, s \in DOMAIN VersionPool}

InitOffline ==
    /\ pc = "offline"
    /\ input = Unreadable
    /\ maxRequests = 0
    /\ MainIdle
    /\ TrackerIdle
    /\ ProbeIdle
    /\ offStage = "input"
    /\ offVersions \in UNION {[1..n -> VersionLists] : n \in 1..MaxResults}
    /\ offResults = <<>>
    /\ offRows = <<>>

\* The end of a lookup whose two fetches were fulfilled, for each list.
OffClassify ==
    /\ offStage = "input"
    /\ offResults' = [k \in DOMAIN offVersions |->
                        classifiedResult(firstCall(OffTargets[k]), offVersions[k])]
    /\ offStage' = "classified"
    /\ UNCHANGED <<offVersions, offRows, trackerVars, mainVars, historyVars, probeVars>>

\* writeResultsToCsv(offResults, path)
OffWrite ==
    /\ offStage = "classified"
    /\ offRows' = writeResultsToCsv(offResults)
    /\ offStage' = "written"
    /\ UNCHANGED <<offVersions, offResults, trackerVars, mainVars, historyVars, probeVars>>

NextOffline ==
    \/ OffClassify
    \/ OffWrite

SpecOffline == InitOffline /\ [][NextOffline]_vars

----------------------------------------------------------------------------
(* Properties                                                              *)

\* The lookup that pushed results[i] has returned (pc is back in main).
LookupReturned == attempt.outcome \in {"classified", "noMaster", "error"}

\* C1: at every instant the remote calls issued in the trailing window
\* (now - WINDOW_MS, now], fulfilled or rejected, number at most
\* maxRequests.
RateContract ==
    pc \notin {"start", "tracker", "offline"} =>
        Len(inTrailingWindow(callLog, now)) <= maxRequests

\* C2: a lookup never throws to main; one that ends in failure returns a
\* non-matching result with no version, for its own target; the loop goes
\* on to the last target and the run ends with exit status zero (a
\* non-zero status after the loop comes from the output file that could not
\* be written, never from a lookup).
LookupNeverThrows ==
    /\ attempt.outcome # "thrown"
    /\ attempt.outcome = "error" =>
          /\ i >= 1
          /\ Len(results) = i
          /\ results[i].releaseId = releaseIds[i].id
          /\ ~results[i].hasPostMinYearRelease
          /\ results[i].postMinYearReleases = <<>>
          /\ pc \in {"loop", "exit"}
    /\ (pc # "exit" /\ pc \notin {"tracker", "offline"}) => exitCode = 0
    /\ (pc = "exit" /\ input.readable) =>
          /\ Len(results) = Len(releaseIds)
          /\ exitCode # 0 => (Len(matched) > 0 /\ csvContent = None)
          /\ (Len(matched) = 0 \/ csvContent # None) => exitCode = 0

\* C2 witness: the run ended with status zero although the first lookup
\* (release 111, which has a 2016 version) failed, and a later one matched.
FailedLookupThenMatch ==
    /\ pc = "exit"
    /\ exitCode = 0
    /\ Len(results) >= 2
    /\ results[1].releaseId = 111
    /\ ~results[1].hasPostMinYearRelease
    /\ \E k \in 2..Len(results) : results[k].hasPostMinYearRelease

\* C3: a lookup all of whose remote calls were rejected with status 429
\* made MAX_RETRIES + 1 calls and MAX_RETRIES backoff waits, and returned
\* a non-matching result.
ExhaustedRetries ==
    /\ attempt.rejected <= MAX_RETRIES + 1
    /\ (LookupReturned /\ attempt.rejected = attempt.calls) =>
          /\ attempt.calls = MAX_RETRIES + 1
          /\ Len(attempt.waits) = MAX_RETRIES
          /\ cur.retryCount = MAX_RETRIES
          /\ attempt.outcome = "error"
          /\ ~results[i].hasPostMinYearRelease
          /\ results[i].postMinYearReleases = <<>>

\* C3 witness: a lookup returned after MAX_RETRIES + 1 calls, all rejected.
AllCallsRateLimited ==
    /\ pc = "loop"
    /\ attempt.outcome = "error"
    /\ attempt.calls = MAX_RETRIES + 1
    /\ attempt.rejected = MAX_RETRIES + 1
    /\ Len(results) = i

\* The result of a lookup of target t whose calls are all fulfilled.
expectedResult(t) ==
    LET data == ReleaseData(t.id)
    IN  IF IsSome(data.master_id)
        THEN classifiedResult(firstCall(t), MasterVersions(Get(data.master_id)))
        ELSE emptyResult(firstCall(t))

\* C4: a lookup rejected with status 429 twice and fulfilled on the third
\* attempt returns the result of the lookup that is never rejected, after
\* exactly two backoff waits.
RetriedTwiceSameResult ==
    (/\ LookupReturned
     /\ attempt.rejected = 2
     /\ attempt.errors = 0
     /\ attempt.outcome # "error") =>
        /\ Len(attempt.waits) = 2
        /\ cur.retryCount = 2
        /\ results[i] = expectedResult(releaseIds[i])

\* C4 witness: release 111 was looked up twice in the run; the second
\* lookup was rejected twice (once on the versions fetch) and returned the
\* matching result the first one did.
SameResultAfterTwoRejections ==
    /\ pc = "loop"
    /\ attempt.outcome = "classified"
    /\ attempt.rejected = 2
    /\ attempt.errors = 0
    /\ attempt.versionsRejected = 1
    /\ results[i].hasPostMinYearRelease
    /\ \E j \in 1..(i - 1) :
          /\ releaseIds[j] = releaseIds[i]
          /\ results[j] = results[i]

\* C5: results holds one LookupResult per target, in input order, result k
\* that of target k, and the matched accumulator is the subsequence of the
\* matched results; at the end there is one per input target.
ResultsInInputOrder ==
    /\ Len(results) = i
    /\ \A k \in 1..Len(results) : results[k].releaseId = releaseIds[k].id
    /\ matched = SelectSeq(results, LAMBDA r : r.hasPostMinYearRelease)
    /\ (pc = "exit" /\ input.readable) => Len(results) = Len(releaseIds)

\* C5 witness: a finished batch of four targets, of which two or three
\* matched.
BatchDoneSomeMatched ==
    /\ pc = "exit"
    /\ Len(results) = 4
    /\ Len(matched) \in {2, 3}
    /\ ~results[1].hasPostMinYearRelease

\* C6: the k-th backoff wait of a lookup is taken at retry counter k - 1
\* and lasts BASE_DELAY_MS * 2^(k-1), whichever fetch was rejected, so the
\* waits of a lookup strictly increase; there are at most MAX_RETRIES.
BackoffExponential ==
    /\ Len(attempt.waits) <= MAX_RETRIES
    /\ \A k \in DOMAIN attempt.waits :
          /\ attempt.waits[k].retryCount = k - 1
          /\ attempt.waits[k].delay = BASE_DELAY_MS * (2 ^ (k - 1))
          /\ k > 1 => attempt.waits[k].delay > attempt.waits[k - 1].delay
    /\ pc = "backoff" =>
          /\ cur.retryCount < MAX_RETRIES
          /\ pending.delay = BASE_DELAY_MS * (2 ^ cur.retryCount)

\* C6 witness: a lookup took MAX_RETRIES backoff waits, after rejections of
\* both fetches.
BackoffsOfBothFetches ==
    /\ Len(attempt.waits) = MAX_RETRIES
    /\ attempt.versionsRejected >= 1
    /\ attempt.versionsRejected < attempt.rejected

\* The recorded timestamps younger than the window at clock value t.
countInWindow(rec, t) == Cardinality({k \in DOMAIN rec : t - rec[k] < WINDOW_MS})

\* C7: getRemaining() is max(0, maxRequests - requests in the window) and
\* lies in 0..maxRequests, whatever was recorded and whatever the clock.
RemainingWithinBudget ==
    pc = "tracker" =>
        LET remaining == getRemaining(requestTimestamps, now, maxRequests)
            inWindow == countInWindow(recorded, now)
        IN  /\ remaining \in 0..maxRequests
            /\ remaining = IF inWindow >= maxRequests THEN 0 ELSE maxRequests - inWindow
            /\ observed.op = "getRemaining" => observed.value = remaining

\* C7 witness: getRemaining() returned 0 with more than maxRequests
\* requests in the window.
RemainingClamped ==
    /\ observed.op = "getRemaining"
    /\ observed.value = 0
    /\ countInWindow(recorded, now) > maxRequests

\* C8: getRequestsInWindow() is the number of recorded timestamps ts with
\* now - ts < WINDOW_MS, and what cleanup retains is exactly those.
RequestsInWindowExact ==
    pc = "tracker" =>
        /\ getRequestsInWindow(requestTimestamps, now) = countInWindow(recorded, now)
        /\ observed.op = "getRequestsInWindow" =>
              /\ observed.value = countInWindow(recorded, now)
              /\ Len(requestTimestamps) = observed.value
              /\ \A k \in DOMAIN requestTimestamps :
                    now - requestTimestamps[k] < WINDOW_MS

\* C8 witness: a query counted some recorded requests and left out one
\* recorded exactly WINDOW_MS earlier.
StaleEntryNotCounted ==
    /\ observed.op = "getRequestsInWindow"
    /\ observed.value > 0
    /\ observed.value < Len(recorded)
    /\ \E k \in DOMAIN recorded : now - recorded[k] = WINDOW_MS

\* The first run of four digits of a string read as a year, None without one.
firstFourDigitYear(s) ==
    LET hits == {p \in 1..(Len(s) - 3) : \A q \in 0..3 : IsDigit(s[p + q])}
    IN  IF hits = {} THEN None
        ELSE LET p == CHOOSE x \in hits : \A y \in hits : x <= y
             IN  Some(1000 * DigitValue(s[p]) + 100 * DigitValue(s[p + 1])
                        + 10 * DigitValue(s[p + 2]) + DigitValue(s[p + 3]))

\* The resolved year as the claim words it: the year field when present.
resolvedYearWhenPresent(version) ==
    IF IsSome(version.year) THEN version.year
    ELSE firstFourDigitYear(version.released)

\* The resolved year with a year field of 0 read as absent.
resolvedYearWhenNonZero(version) ==
    IF IsSome(version.year) /\ Get(version.year) # 0 THEN version.year
    ELSE firstFourDigitYear(version.released)

idsOf(s) == [k \in DOMAIN s |-> s[k].id]

\* C9 as stated: the versions kept for a master are, in order, exactly
\* those whose resolved year (the year field when present, else the first
\* four digits of released) is at least MIN_YEAR.
MatchesYearFieldWhenPresent ==
    offStage # "input" =>
        \A k \in DOMAIN offResults :
            LET qualifies(v) == /\ IsSome(resolvedYearWhenPresent(v))
                                /\ Get(resolvedYearWhenPresent(v)) >= MIN_YEAR
            IN  idsOf(offResults[k].postMinYearReleases)
                    = idsOf(SelectSeq(offVersions[k], qualifies))

\* C9 amended: the versions kept for a master are, in order, exactly those
\* whose resolved year is at least MIN_YEAR, the resolved year being the
\* year field when present and not 0, else the first four digits of
\* released; a version with neither is left out, one of year MIN_YEAR is
\* kept and one of year MIN_YEAR - 1 is left out.
MatchesResolvedYear ==
    offStage # "input" =>
        \A k \in DOMAIN offResults :
            LET qualifies(v) == /\ IsSome(resolvedYearWhenNonZero(v))
                                /\ Get(resolvedYearWhenNonZero(v)) >= MIN_YEAR
                kept == idsOf(offResults[k].postMinYearReleases)
            IN  /\ kept = idsOf(SelectSeq(offVersions[k], qualifies))
                /\ offResults[k].hasPostMinYearRelease = (Len(kept) > 0)
                /\ \A n \in DOMAIN offVersions[k] :
                      LET v == offVersions[k][n]
                          y == resolvedYearWhenNonZero(v)
                          isKept == \E m \in DOMAIN kept : kept[m] = v.id
                      IN  /\ y = None => ~isKept
                          /\ y = Some(MIN_YEAR) => isKept
                          /\ y = Some(MIN_YEAR - 1) => ~isKept

\* A master whose versions are one of year MIN_YEAR and one of year
\* MIN_YEAR - 1 has been classified: the first alone is kept.
ThresholdYearKept ==
    /\ offStage = "classified"
    /\ Len(offVersions[1]) = 2
    /\ offVersions[1][1].year = Some(MIN_YEAR)
    /\ offVersions[1][2].year = Some(MIN_YEAR - 1)
    /\ idsOf(offResults[1].postMinYearReleases) = <<offVersions[1][1].id>>

----------------------------------------------------------------------------
(* Reading the written content back: records end at a line break outside   *)
(* quotes, fields at a comma outside quotes.                               *)

\* The position that ends the field starting at p: the first comma or line
\* break at or after p with an even number of quotes since p, or one past
\* the end of the content.
fieldEnd(c, p) ==
    LET closes(q) ==
            /\ q = Len(c) + 1 \/ c[q] \in {",", "\n"}
            /\ Cardinality({r \in p..(q - 1) : c[r] = "\""}) % 2 = 0
    IN  CHOOSE q \in p..(Len(c) + 1) :
            closes(q) /\ \A r \in p..(q - 1) : ~closes(r)

\* The records of the content from position p on, given the fields read so
\* far of the current record and the records completed before it.
RECURSIVE readRecords(_, _, _, _)
readRecords(c, p, fields, records) ==
    LET q == fieldEnd(c, p)
        row == Append(fields, SubSeq(c, p, q - 1))
    IN  IF q = Len(c) + 1 THEN Append(records, row)
        ELSE IF c[q] = "," THEN readRecords(c, q + 1, row, records)
        ELSE readRecords(c, q + 1, <<>>, Append(records, row))

\* The (release id, candidate id) pairs of the results, result by result and
\* candidate by candidate.
RECURSIVE pairsOf(_)
pairsOf(rs) ==
    IF Len(rs) = 0 THEN <<>>
    ELSE [k \in 1..Len(Head(rs).postMinYearReleases) |->
            <<Head(rs).releaseId, Head(rs).postMinYearReleases[k].id>>]
         \o pairsOf(Tail(rs))

\* C10: the written content is the header record followed by exactly one
\* record of seven fields per (result, candidate) pair, in result order and
\* then candidate order, whose third field is the result's release id and
\* whose sixth is the candidate's id; a result without candidate adds none.
OneRowPerCandidate ==
    offStage = "written" =>
        LET records == readRecords(offRows, 1, <<>>, <<>>)
            pairs == pairsOf(offResults)
        IN  /\ Len(records) = 1 + Len(pairs)
            /\ \A k \in DOMAIN pairs :
                  /\ Len(records[k + 1]) = 7
                  /\ records[k + 1][3] = NumberToString(pairs[k][1])
                  /\ records[k + 1][6] = NumberToString(pairs[k][2])

\* Written: a first result without candidate and a second with two, the
\* content holding the header and two records.
ResultWithoutCandidateThenTwo ==
    /\ offStage = "written"
    /\ Len(offResults) = 2
    /\ Len(offVersions[1]) > 0
    /\ Len(offResults[1].postMinYearReleases) = 0
    /\ Len(offResults[2].postMinYearReleases) = 2
    /\ Len(readRecords(offRows, 1, <<>>, <<>>)) = 3

----------------------------------------------------------------------------
(* Properties of the error paths, the retries and the pacing               *)

\* C11: when the input file cannot be read or parsed, the run ends with a
\* non-zero exit status, no client and no rate limiter having been
\* created (maxRequests and isAuthenticated untouched) and no remote call
\* issued.
InputErrorIsFatal ==
    (pc \notin {"start", "tracker", "offline"} /\ ~input.readable) =>
        /\ pc = "exit"
        /\ exitCode # 0
        /\ maxRequests = 0
        /\ ~isAuthenticated
        /\ releaseIds = <<>>
        /\ callLog = <<>>
        /\ attempt = NoAttempt
        /\ results = <<>>
        /\ csvContent = None

\* The run of an unreadable input file has ended.
UnreadableInputExited ==
    /\ pc = "exit"
    /\ ~input.readable
    /\ exitCode = 1

\* C12: a remote call of a lookup that fails with an error other than 429
\* ends the lookup at once: the rejection is the lookup's last operation
\* (no backoff, no gate, no call after it), it is the only such error of
\* the lookup, and main has received the non-matching result of the target.
OtherErrorEndsLookup ==
    attempt.errors > 0 =>
        /\ attempt.errors = 1
        /\ attempt.outcome = "error"
        /\ pc \in {"loop", "exit"}
        /\ attempt.ops[Len(attempt.ops)] = "rejected"
        /\ pending = NoPending
        /\ Len(attempt.waits) = attempt.rejected
        /\ attempt.calls = attempt.rejected + 1 + attempt.fulfilled
        /\ Len(results) = i
        /\ results[i].releaseId = releaseIds[i].id
        /\ ~results[i].hasPostMinYearRelease
        /\ results[i].postMinYearReleases = <<>>

\* A lookup ended on a non-429 error of its versions fetch, right after the
\* release fetch was fulfilled, without any backoff wait.
VersionsErrorEndedLookup ==
    /\ attempt.errors = 1
    /\ attempt.outcome = "error"
    /\ attempt.waits = <<>>
    /\ attempt.calls = 2
    /\ attempt.ops = <<"record", "gate", "getMasterVersions", "rejected">>

\* C13: one retry counter serves both fetches of a lookup.  After every
\* step the counter equals the number of backoff waits the lookup has
\* taken, which is at most MAX_RETRIES (so at most MAX_RETRIES + 1
\* attempts); during a lookup the counter never decreases, and it changes
\* only by one, at the end of a backoff wait.
SharedRetryCounter ==
    [][/\ Len(attempt'.waits) <= MAX_RETRIES
       /\ cur'.retryCount = Len(attempt'.waits)
       /\ cur'.retryCount + 1 <= MAX_RETRIES + 1
       /\ pc \notin {"start", "loop"} =>
             /\ cur'.retryCount >= cur.retryCount
             /\ cur'.retryCount # cur.retryCount =>
                   /\ pc = "backoff"
                   /\ cur'.retryCount = cur.retryCount + 1
                   /\ cur'.releaseId = cur.releaseId]_vars

\* A lookup returned its classified result on attempt MAX_RETRIES + 1, the
\* earlier attempts having been rejected on the release fetch for some and
\* on the versions fetch for the others.
ClassifiedOnLastAttempt ==
    /\ attempt.outcome = "classified"
    /\ cur.retryCount = MAX_RETRIES
    /\ attempt.rejected = MAX_RETRIES
    /\ attempt.versionsRejected \in 1..(MAX_RETRIES - 1)

\* C14: with a remote service that settles every call, the batch completes:
\* the run reaches its exit with one result per target of a readable
\* input; no lookup makes more than 2 * (MAX_RETRIES + 1) remote calls or
\* takes more than MAX_RETRIES backoff waits, and every wait is finite (a
\* pacing wait lasts at most WINDOW_MS + BUFFER_MS, a backoff wait at most
\* BASE_DELAY_MS * 2^(MAX_RETRIES - 1)).
BatchCompletes ==
    /\ <>(pc = "exit" /\ (input.readable => Len(results) = Len(releaseIds)))
    /\ [](/\ attempt.calls <= 2 * (MAX_RETRIES + 1)
          /\ Len(attempt.waits) <= MAX_RETRIES
          /\ lastWait.slept <= WINDOW_MS + BUFFER_MS
          /\ pending.delay <= BASE_DELAY_MS * (2 ^ (MAX_RETRIES - 1))
          /\ \A k \in DOMAIN attempt.waits :
                attempt.waits[k].delay <= BASE_DELAY_MS * (2 ^ (MAX_RETRIES - 1)))

\* The batch of three targets is complete, its second lookup matched and
\* its last lookup took MAX_RETRIES backoff waits.
BatchDoneAfterLongestLookup ==
    /\ pc = "exit"
    /\ Len(results) = 3
    /\ results[2].hasPostMinYearRelease
    /\ Len(attempt.waits) = MAX_RETRIES
    /\ attempt.calls = MAX_RETRIES + 1
    /\ attempt.outcome = "noMaster"

\* The positions of a lookup in progress.
lookupPcs ==
    {"gateRelease", "sleepBeforeRelease", "awaitRelease", "sleepAfterRelease",
     "gateVersions", "sleepBeforeVersions", "awaitVersions", "sleepAfterVersions",
     "backoff"}

\* C15: the run has one thread of control, so at most one remote call or
\* wait is in progress; while a lookup is in progress (at a gate, awaiting
\* a fetch, or in a backoff wait, on a first attempt or a retry) it is the
\* lookup of target i + 1 and exactly the results of targets 1..i have
\* been appended; a remote call is issued only from such a state, for that
\* target.
OneLookupAtATime ==
    [][/\ pc \in lookupPcs =>
             /\ i < Len(releaseIds)
             /\ Len(results) = i
             /\ cur.releaseId = releaseIds[i + 1].id
             /\ \A k \in 1..i : results[k].releaseId = releaseIds[k].id
       /\ pending.fetch # "none" => pc = "backoff"
       /\ attempt'.calls = attempt.calls + 1 =>
             /\ pc \in {"gateRelease", "sleepBeforeRelease",
                         "gateVersions", "sleepBeforeVersions"}
             /\ pc' \in {"awaitRelease", "awaitVersions"}
             /\ callLog'[Len(callLog')] = now
             /\ Len(results') = i
             /\ cur'.releaseId = releaseIds[i + 1].id
       /\ Len(results') # Len(results) =>
             /\ Len(results') = Len(results) + 1
             /\ i' = i + 1
             /\ pc' = "loop"
             /\ results'[i'].releaseId = cur.releaseId]_vars

\* The fourth target's lookup is in a backoff wait after a rejected
\* versions fetch, the results of the first three targets being in the
\* accumulator.
FourthLookupRetrying ==
    /\ pc = "backoff"
    /\ i = 3
    /\ Len(results) = 3
    /\ cur.releaseId = releaseIds[4].id
    /\ pending.fetch = "getMasterVersions"
    /\ cur.retryCount >= 1

\* The last n operations noted for the lookup in progress.
lastOps(n) ==
    IF Len(attempt.ops) < n THEN <<>>
    ELSE SubSeq(attempt.ops, Len(attempt.ops) - n + 1, Len(attempt.ops))

\* C16: a remote call is issued only by the step that ends a waitIfNeeded
\* with no figure: the wait recorded for it has no header
\* figure, was decided on the locally computed remaining, and nothing lies
\* between that gate and the call; while getRelease (getMasterVersions)
\* is in flight the lookup's last two operations are the gate and that
\* call, on a first attempt and on a retry.
EveryCallGated ==
    [][/\ attempt'.calls = attempt.calls + 1 =>
             /\ lastWait'.kind # "idle"
             /\ lastWait'.header = None
             /\ LET inWindow == Cardinality({k \in DOMAIN requestTimestamps :
                                     now - requestTimestamps[k] < WINDOW_MS})
                IN  lastWait'.remaining =
                        IF inWindow >= maxRequests THEN 0 ELSE maxRequests - inWindow
             /\ (lastWait'.slept > 0) = (lastWait'.remaining <= WAIT_THRESHOLD)
             /\ Len(attempt'.ops) >= 2
             /\ attempt'.ops[Len(attempt'.ops) - 1] = "gate"
             /\ attempt'.ops[Len(attempt'.ops)] \in {"getRelease", "getMasterVersions"}
       /\ pc' = "awaitRelease" =>
             /\ attempt'.calls = attempt.calls + 1
             /\ attempt'.ops[Len(attempt'.ops)] = "getRelease"
       /\ pc' = "awaitVersions" =>
             /\ attempt'.calls = attempt.calls + 1
             /\ attempt'.ops[Len(attempt'.ops)] = "getMasterVersions"]_vars

\* On a retry, getMasterVersions is in flight behind a headerless gate,
\* the release response before it having carried a figure.
RetriedVersionsCallGated ==
    /\ pc = "awaitVersions"
    /\ cur.retryCount >= 1
    /\ lastOps(4) = <<"record", "paced", "gate", "getMasterVersions">>
    /\ lastWait.header = None
    /\ lastWait.kind = "none"

\* The timestamps of ts younger than the window at the present instant.
freshOf(ts) == SelectSeq(ts, LAMBDA x : now - x < WINDOW_MS)

\* C17: the step that fulfils a remote call records one request, dated at
\* the fulfilment, before anything else: the tracker then holds the
\* timestamps that were still fresh plus that one; when the response
\* carries a figure the recording is followed at once by the wait decided
\* on that figure, and by nothing otherwise.  The step that rejects a
\* call, with 429 or another status, leaves the tracker's timestamps and
\* its last wait as they were.  Recordings and fulfilled calls of a lookup
\* are equal in number.
RecordedOncePerSuccess ==
    [][/\ attempt'.records = attempt'.fulfilled
       /\ attempt'.fulfilled = attempt.fulfilled + 1 =>
             /\ pc \in {"awaitRelease", "awaitVersions"}
             /\ attempt'.records = attempt.records + 1
             /\ attempt'.calls = attempt.calls
             /\ LET paced == IsSome(lastWait'.header)
                    ops == attempt'.ops
                IN  /\ paced =>
                          /\ Len(ops) >= 2
                          /\ ops[Len(ops) - 1] = "record"
                          /\ ops[Len(ops)] = "paced"
                    /\ ~paced =>
                          /\ ops[Len(ops)] = "record"
                          /\ lastWait' = lastWait
                    /\ (paced /\ lastWait'.slept > 0) <=>
                          pc' \in {"sleepAfterRelease", "sleepAfterVersions"}
                    /\ \E lat \in Latencies :
                          requestTimestamps' =
                              Append(freshOf(elapse(requestTimestamps, lat)), now)
       /\ pc \in {"sleepAfterRelease", "sleepAfterVersions"} =>
             /\ attempt'.records = attempt.records
             /\ attempt'.fulfilled = attempt.fulfilled
             /\ attempt'.calls = attempt.calls
             /\ lastWait' = lastWait
             /\ requestTimestamps' = freshOf(elapse(requestTimestamps, lastWait.slept))
       /\ attempt'.rejected + attempt'.errors > attempt.rejected + attempt.errors =>
             /\ pc \in {"awaitRelease", "awaitVersions"}
             /\ attempt'.records = attempt.records
             /\ attempt'.fulfilled = attempt.fulfilled
             /\ lastWait' = lastWait
             /\ \E lat \in Latencies :
                   requestTimestamps' = elapse(requestTimestamps, lat)]_vars

\* A lookup was classified after one rejected call: three calls fulfilled
\* and recorded, the last response carrying a figure that made the limiter
\* wait.
TwoRecordedOneRejected ==
    /\ attempt.outcome = "classified"
    /\ attempt.calls = 4
    /\ attempt.rejected = 1
    /\ attempt.fulfilled = 3
    /\ attempt.records = 3
    /\ IsSome(lastWait.header)
    /\ lastWait.slept > 0

\* The remaining the tracker computed locally when the last waitIfNeeded
\* call began, from every time ever recorded: that call slept
\* lastWait.slept ms, so it began that long before the present.
localRemainingAtCall ==
    LET inWindow == Cardinality({k \in DOMAIN recorded :
                        now - recorded[k] < WINDOW_MS})
    IN  IF inWindow >= maxRequests THEN 0 ELSE maxRequests - inWindow

\* C18: a waitIfNeeded call given a figure sleeps if and only if the figure
\* is at most WAIT_THRESHOLD, whatever the locally computed remaining; a
\* call given none sleeps if and only if the locally computed remaining is
\* at most WAIT_THRESHOLD.
HeaderFigureDecidesWait ==
    (pc = "tracker" /\ observed.op = "waitIfNeeded") =>
        /\ observed.value = lastWait.slept
        /\ IF IsSome(lastWait.header)
           THEN /\ (lastWait.slept > 0) = (Get(lastWait.header) <= WAIT_THRESHOLD)
                /\ lastWait.remaining = Get(lastWait.header)
           ELSE /\ (lastWait.slept > 0) = (localRemainingAtCall <= WAIT_THRESHOLD)
                /\ lastWait.remaining = localRemainingAtCall

\* A call given a figure above the threshold did not sleep although the
\* local remaining was 0.
FigureOverridesFullWindow ==
    /\ pc = "tracker"
    /\ observed.op = "waitIfNeeded"
    /\ lastWait.header = Some(WAIT_THRESHOLD + 1)
    /\ lastWait.slept = 0
    /\ localRemainingAtCall = 0

\* C19 as stated: the step that ends the backoff wait taken for a rejected
\* versions fetch returns the lookup to the versions fetch, the release
\* data kept and not fetched again.
VersionsRetryResumesVersions ==
    [][(pc = "backoff" /\ pending.fetch = "getMasterVersions") =>
          /\ pc' = "gateVersions"
          /\ release' = release]_vars

\* C19 amended: the step that ends the backoff wait taken for a rejected
\* versions fetch restarts the whole attempt for the same target with the
\* retry counter raised by one: the release data is dropped, and the next
\* remote call of the lookup is getRelease; getMasterVersions is called
\* again only once that release fetch is fulfilled.
VersionsRetryRestartsAttempt ==
    [][/\ (pc = "backoff" /\ pending.fetch = "getMasterVersions") =>
             /\ pc' = "gateRelease"
             /\ release' = NoRelease
             /\ cur'.releaseId = cur.releaseId
             /\ cur'.retryCount = cur.retryCount + 1
             /\ attempt'.calls = attempt.calls
       /\ (attempt'.calls = attempt.calls + 1
             /\ Len(attempt.ops) > 0
             /\ \/ attempt.ops[Len(attempt.ops)] = "backoff"
                \/ /\ Len(attempt.ops) > 1
                   /\ attempt.ops[Len(attempt.ops)] = "gate"
                   /\ attempt.ops[Len(attempt.ops) - 1] = "backoff") =>
             /\ pc' = "awaitRelease"
             /\ attempt'.ops[Len(attempt'.ops)] = "getRelease"
       /\ pc' = "awaitVersions" =>
             /\ IsSome(release'.master_id)
             /\ Len(attempt'.ops) >= 3
             /\ attempt'.ops[Len(attempt'.ops) - 2] \in {"record", "paced"}]_vars

\* The only rejection of the lookup so far was of its versions fetch; after
\* the backoff wait getRelease is in flight again.
ReleaseRefetchedAfterVersionsRejection ==
    /\ pc = "awaitRelease"
    /\ attempt.rejected = 1
    /\ attempt.versionsRejected = 1
    /\ attempt.fulfilled = 1
    /\ attempt.calls = 3
    /\ attempt.ops = <<"rejected", "backoff", "gate", "getRelease">>

\* C20: in a run whose budget exceeds WAIT_THRESHOLD, the tracker never
\* retains more than maxRequests - WAIT_THRESHOLD timestamps, so the
\* remaining it computes locally never falls below WAIT_THRESHOLD and its
\* recorded requests never fill the window.
RetainedBelowBudget ==
    (pc \notin {"start", "tracker", "offline"} /\ maxRequests > WAIT_THRESHOLD) =>
        LET inWindow == Cardinality({k \in DOMAIN requestTimestamps :
                                        now - requestTimestamps[k] < WINDOW_MS})
        IN  /\ Len(requestTimestamps) <= maxRequests - WAIT_THRESHOLD
            /\ maxRequests - inWindow >= WAIT_THRESHOLD
            /\ inWindow < maxRequests

\* The tracker of a run with a credential retains maxRequests -
\* WAIT_THRESHOLD timestamps, all of the current window, while a lookup is
\* at a gate.
RetainedAtCeiling ==
    /\ pc \in {"gateRelease", "gateVersions"}
    /\ isAuthenticated
    /\ Len(requestTimestamps) = maxRequests - WAIT_THRESHOLD
    /\ \A k \in DOMAIN requestTimestamps : now - requestTimestamps[k] < WINDOW_MS

----------------------------------------------------------------------------
(* Properties of the waits, the no-master outcome and the progress report  *)

\* The times recorded that are younger than the window.
freshAtCall == {x \in {recorded[k] : k \in DOMAIN recorded} : now - x < WINDOW_MS}

\* C21: a waitIfNeeded call that decides to wait while it retains a
\* timestamp sets a timer of WINDOW_MS - (now - oldest) + BUFFER_MS, oldest
\* being the first element of the sequence and the least of the timestamps
\* of the window (the sequence is non-decreasing), and never skips the
\* sleep; when the timer fires and the call returns, that timestamp and
\* every one as old are no longer retained, whatever was recorded
\* meanwhile and whichever of the calls due at the same instant returns
\* first.
WaitsUntilOldestLeaves ==
    pc = "tracker" =>
        /\ \A j, k \in DOMAIN requestTimestamps :
              j <= k => requestTimestamps[j] <= requestTimestamps[k]
        /\ (observed.op = "waitIfNeeded" /\ lastWait.remaining <= WAIT_THRESHOLD
              /\ freshAtCall # {}) =>
              LET oldest == CHOOSE x \in freshAtCall : \A y \in freshAtCall : x <= y
              IN  /\ lastWait.kind = "window"
                  /\ lastWait.oldest = Some(oldest)
                  /\ lastWait.slept = WINDOW_MS - (now - oldest) + BUFFER_MS
                  /\ observed.value = lastWait.slept
                  /\ Len(sleeping) > 0
                  /\ sleeping[Len(sleeping)].due = lastWait.slept
                  /\ requestTimestamps[1] = oldest
        /\ \A k \in DOMAIN sleeping :
              /\ sleeping[k].due \in 0..sleeping[k].slept
              /\ sleeping[k].kind = "window" =>
                    \E x \in DOMAIN recorded :
                        now - recorded[x] =
                            WINDOW_MS + BUFFER_MS - sleeping[k].due
        /\ observed.op = "resolvedWindow" =>
              /\ \E x \in DOMAIN recorded : now - recorded[x] = WINDOW_MS + BUFFER_MS
              /\ \A k \in DOMAIN requestTimestamps :
                    now - requestTimestamps[k] < WINDOW_MS
              /\ Len(requestTimestamps) = Cardinality({k \in DOMAIN recorded :
                                                          now - recorded[k] < WINDOW_MS})

\* A call slept until the oldest of the retained timestamps left the
\* window and returned with a younger one retained, a request having been
\* recorded while it slept.
OldestLeftYoungerKept ==
    /\ pc = "tracker"
    /\ observed.op = "resolvedWindow"
    /\ observed.value < WINDOW_MS
    /\ Len(requestTimestamps) > 1
    /\ \E k \in DOMAIN requestTimestamps :
          now - requestTimestamps[k] < observed.value

\* C22: when getRelease is fulfilled for a release without master id, the
\* lookup returns the non-matching result with no matching versions as its
\* normal outcome: nothing is logged as an error, the process does not
\* exit on it, the result is pushed in the target's place and not among the
\* matches, and no getMasterVersions call is issued for that target, whose
\* single fulfilled call is the release fetch.
NoMasterIsNormalOutcome ==
    /\ pc \in {"gateVersions", "sleepBeforeVersions", "awaitVersions",
                "sleepAfterVersions"} =>
          /\ IsSome(release.master_id)
          /\ IsSome(ReleaseData(cur.releaseId).master_id)
    /\ (pc \in {"gateRelease", "sleepBeforeRelease", "awaitRelease",
                 "sleepAfterRelease", "backoff", "loop", "exit"}
          /\ cur # NoCall /\ ~IsSome(ReleaseData(cur.releaseId).master_id)) =>
          /\ attempt.versionsRejected = 0
          /\ attempt.fulfilled <= 1
          /\ \A k \in DOMAIN attempt.ops : attempt.ops[k] # "getMasterVersions"
          /\ attempt.fulfilled = 1 =>
                \/ attempt.outcome = "noMaster"
                \/ pc = "sleepAfterRelease" /\ attempt.outcome = "running"
    /\ attempt.outcome = "noMaster" =>
          /\ pc \in {"loop", "exit"}
          /\ ~IsSome(ReleaseData(cur.releaseId).master_id)
          /\ pc = "loop" => exitCode = 0
          /\ attempt.errors = 0
          /\ attempt.fulfilled = 1
          /\ attempt.records = 1
          /\ attempt.calls = attempt.rejected + 1
          /\ Len(results) = i
          /\ results[i] = [releaseId |-> releaseIds[i].id,
                           artist |-> releaseIds[i].artist,
                           title |-> releaseIds[i].title,
                           hasPostMinYearRelease |-> FALSE,
                           postMinYearReleases |-> <<>>]
          /\ \A k \in DOMAIN matched : matched[k].hasPostMinYearRelease

\* The release fetch of a target without master was fulfilled after a
\* rejected attempt, and the lookup returned.
NoMasterAfterRetry ==
    /\ attempt.outcome = "noMaster"
    /\ attempt.rejected = 1
    /\ attempt.calls = 2
    /\ pc = "loop"

\* Every retained timestamp is younger than the window.
allRetainedFresh == \A k \in DOMAIN requestTimestamps : now - requestTimestamps[k] < WINDOW_MS

\* C23 as stated: in every state of a run, every retained timestamp
\* satisfies now - timestamp < windowDuration.
RetainedAlwaysFresh == pc # "tracker" => allRetainedFresh

\* C23: when an operation of the tracker has returned (the waitIfNeeded of
\* a gate, the recordRequest and the waitIfNeeded after a fulfilled call,
\* the getRequestsInWindow and getRemaining of a progress report), every
\* retained timestamp satisfies now - timestamp < windowDuration, and the
\* report's figures count the retained timestamps only; a timestamp older
\* than the window is retained only while a rejected call or a backoff let
\* time pass, until the next operation purges it.
RetainedFreshAfterOperation ==
    /\ pc \in {"sleepBeforeRelease", "awaitRelease", "sleepAfterRelease",
                "gateVersions", "sleepBeforeVersions", "awaitVersions",
                "sleepAfterVersions"} => allRetainedFresh
    /\ (pc = "gateRelease" /\ attempt = NoAttempt /\ shouldReport(i)) =>
          /\ allRetainedFresh
          /\ Len(progressLog) > 0
          /\ LET report == progressLog[Len(progressLog)]
             IN  /\ report.processed = i
                 /\ report.requestsInWindow = Len(requestTimestamps)
                 /\ report.remaining =
                       IF Len(requestTimestamps) >= maxRequests
                       THEN 0 ELSE maxRequests - Len(requestTimestamps)
    /\ (pc \in {"loop", "exit"} /\ attempt.outcome \in {"noMaster", "classified"}) =>
          allRetainedFresh
    /\ (pc \notin {"tracker", "offline"} /\ ~allRetainedFresh) =>
          \/ pc = "backoff"
          \/ pc = "gateRelease" /\ attempt.rejected > 0
          \/ pc \in {"loop", "exit"} /\ attempt.calls = 0 /\ i > 0
          \/ pc = "gateRelease" /\ attempt.calls = 0 /\ i > 0 /\ ~shouldReport(i)
          \/ pc \in {"loop", "exit"} /\ attempt.outcome = "error"

\* A progress report counted none of the timestamps that the earlier
\* lookups recorded, and the gate of a retry purged the one that the lookup
\* in progress recorded and that grew stale during the backoff.
StalePurgedAtGate ==
    /\ pc = "awaitRelease"
    /\ Len(matched) > 0
    /\ Len(progressLog) = 1
    /\ progressLog[1].requestsInWindow = 0
    /\ attempt.rejected > 0
    /\ attempt.records > 0
    /\ requestTimestamps = <<>>

\* C24: each rate-limit rejection of a remote call leads to exactly one
\* backoff wait, one increment of the retry counter and one restarted
\* attempt (or, with the retries used up, to none and the empty result): the
\* retry branch of the outer catch is never taken, the k-th backoff of a
\* lookup is the one of retry count k - 1, and the backoffs taken are as
\* many as the rejections that were retried.
OneBackoffPerRejection ==
    pc \notin {"tracker", "offline"} =>
        /\ pending.via \in {"none", "retryInner"}
        /\ pc = "backoff" <=> pending.via = "retryInner"
        /\ cur.retryCount = Len(attempt.waits)
        /\ \A k \in DOMAIN attempt.waits :
              /\ attempt.waits[k].retryCount = k - 1
              /\ attempt.waits[k].delay = BASE_DELAY_MS * (2 ^ (k - 1))
        /\ Len(attempt.waits) =
              IF pc = "backoff" THEN attempt.rejected - 1
              ELSE IF attempt.outcome = "error" /\ attempt.errors = 0
                   THEN attempt.rejected - 1
                   ELSE attempt.rejected
        /\ (attempt.outcome = "error" /\ attempt.errors = 0) =>
              attempt.rejected = MAX_RETRIES + 1

\* Both fetches of a lookup were rejected once for the rate limit, and the
\* second backoff has just ended.
TwoRejectionsTwoBackoffs ==
    /\ pc = "gateRelease"
    /\ attempt.rejected = 2
    /\ attempt.versionsRejected = 1
    /\ Len(attempt.waits) = 2
    /\ cur.retryCount = 2

\* The candidates of the results, result by result.
RECURSIVE candidatesOf(_)
candidatesOf(rs) ==
    IF Len(rs) = 0 THEN <<>>
    ELSE Head(rs).postMinYearReleases \o candidatesOf(Tail(rs))

\* C25: every candidate of a result has the year the filter tested on the
\* version it was made from (the year field when usable, else the first
\* four digits of released), which is at least MIN_YEAR; the default year 0
\* appears in no result and in the fourth field of no written record, which
\* is the candidate's year in decimal.
CandidateYearIsTestedYear ==
    /\ offStage # "input" =>
          \A r \in DOMAIN offResults :
              \A k \in DOMAIN offResults[r].postMinYearReleases :
                  LET candidate == offResults[r].postMinYearReleases[k]
                      version == CHOOSE v \in {offVersions[r][n] : n \in DOMAIN offVersions[r]} :
                                    v.id = candidate.id
                      tested == resolvedYearWhenNonZero(version)
                  IN  /\ IsSome(tested)
                      /\ candidate.year = Get(tested)
                      /\ candidate.year >= MIN_YEAR
                      /\ candidate.year # 0
    /\ offStage = "written" =>
          LET records == readRecords(offRows, 1, <<>>, <<>>)
              candidates == candidatesOf(offResults)
          IN  /\ Len(records) = 1 + Len(candidates)
              /\ \A k \in DOMAIN candidates :
                    /\ records[k + 1][4] = NumberToString(candidates[k].year)
                    /\ records[k + 1][4] # <<"0">>

\* Written: a result whose candidates were made from a version of year
\* field 0 and one without year field, both dated by `released`.
YearsTakenFromReleased ==
    /\ offStage = "written"
    /\ Len(offVersions[1]) = 2
    /\ offVersions[1][1].year = Some(0)
    /\ offVersions[1][2].year = None
    /\ Len(offResults[1].postMinYearReleases) = 2
    /\ offResults[1].postMinYearReleases[1].year = MIN_YEAR + 1
    /\ offResults[1].postMinYearReleases[2].year = MIN_YEAR

\* The counts reported so far.
processedOf(log) == [k \in DOMAIN log |-> log[k].processed]

\* The index of the last iteration of main's loop that has begun (-1 before
\* the first).
lastIterationBegun == IF pc \in {"start", "loop", "exit"} THEN i - 1 ELSE i

\* C26 as stated: by the end of a run one observation has been emitted for
\* every k >= 1 with k * N <= the number of targets, reporting k * N items
\* processed, and none at any other count.
ProgressAtEveryMultiple ==
    (pc = "exit" /\ exitCode = 0) =>
        processedOf(progressLog) =
            [k \in 1..(Len(releaseIds) \div ReportInterval) |-> k * ReportInterval]

\* The observations emitted are, in order, those of the counts k * N for
\* the k >= 1 with k * N at most the index of the last iteration begun:
\* one per multiple of N below the number of targets, none at any other
\* count and none once the last target is processed.
ProgressBelowTargetCount ==
    pc \notin {"tracker", "offline"} =>
        /\ processedOf(progressLog) =
              [k \in 1..(IF lastIterationBegun <= 0 THEN 0
                         ELSE lastIterationBegun \div ReportInterval) |->
                  k * ReportInterval]
        /\ \A k \in DOMAIN progressLog :
              /\ progressLog[k].processed < Len(releaseIds)
              /\ progressLog[k].requestsInWindow \in 0..maxRequests
              /\ progressLog[k].remaining = maxRequests - progressLog[k].requestsInWindow

\* The step that emits an observation reports the count of results pushed
\* and the window as it is, leaves the results, the calls issued and the
\* last wait as they are, begins the lookup of the next target as it would
\* without it, and leaves the tracker such that the gate that follows and
\* the recordRequest and waitIfNeeded after any response do what they would
\* have done.
ProgressStepObservesOnly ==
    Len(progressLog') > Len(progressLog) =>
        /\ pc = "loop" /\ pc' = "gateRelease"
        /\ UNCHANGED <<results, matched, callLog, lastWait, i, maxRequests, exitCode,
                       releaseIds, csvContent>>
        /\ cur' = firstCall(releaseIds[i + 1])
        /\ LET inWindow == Cardinality({k \in DOMAIN requestTimestamps :
                                           now - requestTimestamps[k] < WINDOW_MS})
           IN  progressLog' = Append(progressLog,
                                  [processed |-> Len(results),
                                   requestsInWindow |-> inWindow,
                                   remaining |-> Max(0, maxRequests - inWindow)])
        /\ waitIfNeededBegin(requestTimestamps', now, maxRequests, None)
              = waitIfNeededBegin(requestTimestamps, now, maxRequests, None)
        /\ \A lat \in Latencies, hdr \in Headers :
              LET after(ts) == waitIfNeededBegin(recordRequest(elapse(ts, lat), now),
                                            now, maxRequests, hdr)
              IN  after(requestTimestamps') = after(requestTimestamps)

\* C26: a progress observation is emitted every N items: for every k >= 1
\* with k * N < the number of targets exactly one observation reporting
\* k * N items processed is emitted, none at any other count, and the
\* emission changes neither the result sequence nor which remote calls and
\* waits follow.
ProgressEveryInterval ==
    [](ProgressBelowTargetCount) /\ [][ProgressStepObservesOnly]_vars

\* The run of a file whose targets number a multiple of N has ended after
\* reporting at every multiple but the last, with calls still in the window
\* at a report.
ReportedAllButLastMultiple ==
    /\ pc = "exit"
    /\ Len(releaseIds) = 2 * ReportInterval
    /\ Len(results) = Len(releaseIds)
    /\ Len(progressLog) = 1
    /\ progressLog[1].processed = ReportInterval
    /\ progressLog[1].requestsInWindow > 0

\* C27: with the budgets of getClient, the low-water threshold and the
\* window, no waitIfNeeded call of a run takes the fixed conservative
\* delay: a call that decides to wait (remaining <= WAIT_THRESHOLD) retains
\* at least one timestamp, the oldest of which it waits for, and sleeps
\* more than BUFFER_MS and at most WINDOW_MS + BUFFER_MS; a call that does
\* not decide to wait does not sleep.
ConservativeDelayNeverTaken ==
    (pc \notin {"tracker", "offline"} /\ lastWait.kind # "idle") =>
        /\ lastWait.kind # "conservative"
        /\ lastWait.remaining <= WAIT_THRESHOLD <=> lastWait.kind = "window"
        /\ lastWait.kind = "window" =>
              /\ IsSome(lastWait.oldest)
              /\ lastWait.slept > BUFFER_MS
              /\ lastWait.slept <= WINDOW_MS + BUFFER_MS
              /\ lastWait.slept # CONSERVATIVE_DELAY_MS
        /\ lastWait.kind = "none" => lastWait.slept = 0
        /\ ~IsSome(lastWait.header) =>
              (lastWait.kind = "window" => maxRequests - lastWait.remaining > 0)

\* The first response of a run carried the figure 0: the call recorded
\* just before is the only retained timestamp, and the wait was the whole
\* window and the buffer.
LowFigureOnFirstResponse ==
    /\ pc \notin {"tracker", "offline"}
    /\ i = 0
    /\ attempt.fulfilled = 1
    /\ attempt.rejected = 0
    /\ lastWait.header = Some(0)
    /\ lastWait.kind = "window"
    /\ lastWait.slept = WINDOW_MS + BUFFER_MS

============================================================================
